---- MODULE Spec2Model ----
(***************************************************************************)
(* Model of the voice-agent web server (main.py) and of the worker's       *)
(* agent-identifier extraction (agent_worker.py).                          *)
(*                                                                         *)
(* The web server runs on one asyncio event loop: a coroutine runs         *)
(* atomically up to its next await.  ConfigManager.get_profile has one     *)
(* await that yields to other requests, the HTTP GET to N8N, so it is two  *)
(* steps: get_profile_enter (lines 100-107) and get_profile_resume (lines  *)
(* 107-117).  ConfigManager.invalidate has no await and is one step.       *)
(***************************************************************************)
EXTENDS Integers, Sequences, FiniteSets, TLC

VARIABLES
    n8n_base,     \* ConfigManager.n8n_base: "" when N8N_BASE_URL is not set
    _cache,       \* ConfigManager._cache: dict agent_id -> AgentProfile
    _default,     \* ConfigManager._default
    tasks,        \* the requests being served: one coroutine frame each
    n8n_calls,    \* per agent_id query parameter, the GETs sent to N8N so far
    last_op,      \* the last step: the operation, its input and what it returned
    now,          \* the wall clock, in whole seconds since the epoch
    livekit_env,  \* LIVEKIT_API_KEY, LIVEKIT_API_SECRET, LIVEKIT_URL of the process
    minted,       \* the bodies of the successful /api/token responses, in order
    job,          \* the worker's job: the room it was given and what it extracted
    stale_entries \* history: the keys whose entry was stored by a get_profile
                  \* whose GET was sent before an invalidation of that key

config_vars == <<n8n_base, _cache, _default, tasks, n8n_calls, stale_entries>>
token_vars == <<now, livekit_env, minted>>
vars == <<config_vars, last_op, token_vars, job>>

(***************************************************************************)
(* Bounds of the model.                                                    *)
(***************************************************************************)
MaxCalls == 2                      \* GETs sent to N8N in one behaviour

Tasks == {"t1", "t2"}              \* requests served concurrently

\* The agent identifiers callers use; "" is the empty identifier.
AgentIds == {"", "default", "acme"}

\* Python's None, and the marker of an argument the caller left out.
None == "<None>"
Omitted == "<omitted>"

(***************************************************************************)
(* AgentProfile (pydantic model).                                          *)
(***************************************************************************)
Fields ==
    {"id", "name", "language", "voice", "system_prompt", "greeting",
     "qualification_questions", "transfer_keywords", "fallback_message"}

\* The annotation of each field.
FieldType ==
    [f \in Fields |->
        IF f \in {"qualification_questions", "transfer_keywords"}
        THEN "list[str]" ELSE "str"]

\* The class-level default of each field.
FieldDefault ==
    [id |-> "default", name |-> "Lead Nurturing Agent", language |-> "hi-IN",
     voice |-> "arya", system_prompt |-> "", greeting |-> "",
     qualification_questions |-> <<>>, transfer_keywords |-> <<>>,
     fallback_message |-> ""]

\* JSON values as they come out of response.json(): the type and the value.
JStr(s) == [t |-> "str", v |-> s]
JInt(s) == [t |-> "int", v |-> s]
JList(q) == [t |-> "list[str]", v |-> q]

\* AgentProfile(**data) succeeds when every supplied field has the annotated
\* type; keys that are no field are ignored, missing fields take the default.
AgentProfile_valid(data) ==
    \A f \in DOMAIN data \cap Fields : data[f].t = FieldType[f]

AgentProfile(data) ==
    [f \in Fields |-> IF f \in DOMAIN data THEN data[f].v ELSE FieldDefault[f]]

\* ConfigManager._create_default with DEFAULT_LANGUAGE, DEFAULT_VOICE unset.
_create_default ==
    [id |-> "default", name |-> "Lead Nurturing Agent", language |-> "hi-IN",
     voice |-> "arya",
     system_prompt |-> "You are a friendly lead nurturing agent for real estate.",
     greeting |-> "Namaste! RAA Estate mein aapka swagat hai.",
     qualification_questions |-> <<"budget?", "area?", "timeline?">>,
     transfer_keywords |-> <<"manager", "human", "complaint">>,
     fallback_message |-> "Maaf kijiye, main samajh nahin paya."]

(***************************************************************************)
(* What N8N can answer to one GET: the awaited call raises, or it returns  *)
(* a response with a status and a body.                                    *)
(***************************************************************************)
FullBody(id, name) ==
    [id |-> JStr(id), name |-> JStr(name), language |-> JStr("en-IN"),
     voice |-> JStr("anushka"), system_prompt |-> JStr("Sell."),
     greeting |-> JStr("Hello"), qualification_questions |-> JList(<<"q1">>),
     transfer_keywords |-> JList(<<"human">>), fallback_message |-> JStr("Sorry")]

BodyV1 == FullBody("acme", "Acme v1")
BodyV2 == FullBody("acme", "Acme v2")
BodyPartial == [name |-> JStr("Partial")]
BodyMistyped == [id |-> JInt("42"), name |-> JStr("Mistyped")]

Raised(exc) == [kind |-> "raise", exc |-> exc]
Answer(status, body) == [kind |-> "response", status |-> status, body |-> body]
JsonObject(data) == [json |-> "object", data |-> data]

N8nReplies ==
    {Raised("ConnectError"), Raised("ReadTimeout"),
     Answer(404, [json |-> "object", data |-> BodyV1]),
     Answer(200, [json |-> "invalid"]),
     Answer(200, [json |-> "array"]),
     Answer(200, JsonObject(BodyV1)),
     Answer(200, JsonObject(BodyV2)),
     Answer(200, JsonObject(BodyPartial)),
     Answer(200, JsonObject(BodyMistyped))}

(***************************************************************************)
(* ConfigManager.get_profile                                               *)
(***************************************************************************)
Return(v) == [kind |-> "return", value |-> v]

Idle == [pc |-> "idle"]

\* dict.__setitem__
DictSet(d, k, v) == [x \in DOMAIN d \cup {k} |-> IF x = k THEN v ELSE d[x]]

\* dict.pop(k, None)
DictPop(d, k) == [x \in DOMAIN d \ {k} |-> d[x]]

\* The default of the agent_id parameter (line 99).
get_profile_arg(arg) == IF arg = Omitted THEN "default" ELSE arg

\* The cache test that never finds the entry.
cache_hit_never(cache, agent_id) == FALSE

\* Line 100: the cache test.
cache_hit(cache, agent_id) == agent_id \in DOMAIN cache

\* Line 103: the truth value of self.n8n_base.
n8n_enabled(base) == base # ""

\* The GETs sent to N8N so far.
TotalCalls == n8n_calls[""] + n8n_calls["default"] + n8n_calls["acme"]

\* on_reply with the fallback stored under the requested identifier.
on_reply_caches_fallback(cache, agent_id, reply, default) ==
    IF /\ reply.kind = "response"
       /\ reply.status = 200
       /\ reply.body.json = "object"
       /\ AgentProfile_valid(reply.body.data)
    THEN [cache |-> DictSet(cache, agent_id, AgentProfile(reply.body.data)),
          ret |-> Return(AgentProfile(reply.body.data))]
    ELSE [cache |-> DictSet(cache, agent_id, default), ret |-> Return(default)]

\* on_reply without the except clause of lines 114-115.
on_reply_unguarded(cache, agent_id, reply, default) ==
    IF reply.kind = "raise"
    THEN [cache |-> cache, ret |-> reply]
    ELSE IF reply.status # 200
    THEN [cache |-> cache, ret |-> Return(default)]
    ELSE IF reply.body.json # "object"
    THEN [cache |-> cache, ret |-> Raised("JSONDecodeError")]
    ELSE IF ~AgentProfile_valid(reply.body.data)
    THEN [cache |-> cache, ret |-> Raised("ValidationError")]
    ELSE [cache |-> DictSet(cache, agent_id, AgentProfile(reply.body.data)),
          ret |-> Return(AgentProfile(reply.body.data))]

\* Lines 108-117, run when the awaited GET completes with `reply`: the new
\* cache and what get_profile hands to its caller.
on_reply(cache, agent_id, reply, default) ==
    IF reply.kind = "raise"
    THEN [cache |-> cache, ret |-> Return(default)]            \* 114-117
    ELSE IF reply.status # 200
    THEN [cache |-> cache, ret |-> Return(default)]            \* 108, 117
    ELSE IF reply.body.json # "object"
    THEN [cache |-> cache, ret |-> Return(default)]            \* 109/110 raise
    ELSE IF ~AgentProfile_valid(reply.body.data)
    THEN [cache |-> cache, ret |-> Return(default)]            \* 110 raises
    ELSE LET profile == AgentProfile(reply.body.data)
         IN  [cache |-> DictSet(cache, agent_id, profile),
              ret |-> Return(profile)]                          \* 111-113

\* Lines 99-107: up to the await of client.get.  A hit (line 101) and the
\* case of no N8N (line 117) return at once, to get_agent_config (lines
\* 194-195), whose model_dump() reads the profile and changes nothing.
get_profile_enter(t, arg) ==
    LET agent_id == get_profile_arg(arg)
        after == IF last_op.op = "invalidate"
                 THEN [op |-> "invalidate", agent_id |-> last_op.agent_id]
                 ELSE [op |-> "other", agent_id |-> None]
    IN
    /\ tasks[t].pc = "idle"
    /\ UNCHANGED <<n8n_base, _cache, _default, token_vars, job, stale_entries>>
    /\ IF cache_hit(_cache, agent_id)
       THEN /\ last_op' = [op |-> "get_profile", arg |-> arg,
                           agent_id |-> agent_id, after |-> after,
                           path |-> "hit",
                           ret |-> Return(_cache[agent_id])]
            /\ UNCHANGED <<tasks, n8n_calls>>
       ELSE IF n8n_enabled(n8n_base)
       THEN /\ TotalCalls < MaxCalls
            /\ n8n_calls' = [n8n_calls EXCEPT ![agent_id] = @ + 1]
            /\ tasks' = [tasks EXCEPT ![t] =
                    [pc |-> "awaiting", agent_id |-> agent_id, stale |-> FALSE,
                     request |-> [url |-> "/webhook/agent-config",
                                  params |-> [agent_id |-> agent_id]]]]
            /\ last_op' = [op |-> "get_profile", arg |-> arg,
                           agent_id |-> agent_id, after |-> after,
                           path |-> "await"]
       ELSE /\ last_op' = [op |-> "get_profile", arg |-> arg,
                           agent_id |-> agent_id, after |-> after,
                           path |-> "nosource", ret |-> Return(_default)]
            /\ UNCHANGED <<tasks, n8n_calls>>

\* Lines 107-117: the GET completes and the coroutine runs to its return.
get_profile_resume(t, reply) ==
    /\ tasks[t].pc = "awaiting"
    /\ LET r == on_reply(_cache, tasks[t].agent_id, reply, _default) IN
       /\ _cache' = r.cache
       /\ last_op' = [op |-> "resume", agent_id |-> tasks[t].agent_id,
                      path |-> "fetch", reply |-> reply, ret |-> r.ret]
       /\ stale_entries' =
             IF r.ret = Return(_default)              \* nothing was stored
             THEN stale_entries
             ELSE IF tasks[t].stale
             THEN stale_entries \cup {tasks[t].agent_id}
             ELSE stale_entries \ {tasks[t].agent_id}
    /\ tasks' = [tasks EXCEPT ![t] = Idle]
    /\ UNCHANGED <<n8n_base, _default, n8n_calls, token_vars, job>>

(***************************************************************************)
(* ConfigManager.invalidate and POST /api/invalidate-cache                 *)
(***************************************************************************)
EmptyDict == [x \in {} |-> None]

\* Python truth value of an optional string: None and "" are false.
Truthy(s) == s # None /\ s # ""

\* invalidate that looks the entry up and leaves it in place.
invalidate_keeps(cache, agent_id) ==
    IF Truthy(agent_id) THEN cache ELSE EmptyDict

\* invalidate without its else branch.
invalidate_only_named(cache, agent_id) ==
    IF Truthy(agent_id) THEN DictPop(cache, agent_id) ELSE cache

\* Lines 119-123.
invalidate(cache, agent_id) ==
    IF Truthy(agent_id) THEN DictPop(cache, agent_id) ELSE EmptyDict

\* The keys an invalidate call is about: the one named, or all of them.
invalidated_keys(agent_id) == IF Truthy(agent_id) THEN {agent_id} ELSE AgentIds

\* Lines 197-201: the query parameter is None when absent.  The GETs in
\* flight for an invalidated key are marked: they were sent before it.
invalidate_cache(agent_id) ==
    /\ _cache' = invalidate(_cache, agent_id)
    /\ tasks' = [t \in Tasks |->
                    IF /\ tasks[t].pc = "awaiting"
                       /\ tasks[t].agent_id \in invalidated_keys(agent_id)
                    THEN [tasks[t] EXCEPT !.stale = TRUE]
                    ELSE tasks[t]]
    /\ stale_entries' = stale_entries \cap DOMAIN _cache'
    /\ last_op' = [op |-> "invalidate", agent_id |-> agent_id,
                   http |-> [status |-> "invalidated", agent_id |-> agent_id]]
    /\ UNCHANGED <<n8n_base, _default, n8n_calls, token_vars, job>>

(***************************************************************************)
(* Strings whose characters matter (room names, agent identifiers in them) *)
(* are sequences of one-character strings.                                 *)
(***************************************************************************)
S_test == <<"t", "e", "s", "t", "-">>
S_default == <<"d", "e", "f", "a", "u", "l", "t">>
Hyphen == "-"

Digits == <<"0", "1", "2", "3", "4", "5", "6", "7", "8", "9">>

\* str(n) of a non-negative int.
RECURSIVE str_int(_)
str_int(n) ==
    IF n < 10 THEN <<Digits[n + 1]>>
    ELSE str_int(n \div 10) \o <<Digits[(n % 10) + 1]>>

\* str.startswith
startswith(s, prefix) ==
    /\ Len(s) >= Len(prefix)
    /\ SubSeq(s, 1, Len(prefix)) = prefix

\* str.split(sep): the segments between the separators, empty ones included.
RECURSIVE split(_, _)
split(s, sep) ==
    IF \A i \in 1..Len(s) : s[i] # sep
    THEN <<s>>
    ELSE LET i == CHOOSE k \in 1..Len(s) :
                      /\ s[k] = sep
                      /\ \A m \in 1..(k - 1) : s[m] # sep
         IN  <<SubSeq(s, 1, i - 1)>> \o split(SubSeq(s, i + 1, Len(s)), sep)

(***************************************************************************)
(* POST /api/token: generate_token                                         *)
(***************************************************************************)
ClockStart == 9                    \* the clock when the process starts
MaxTicks == 2                      \* seconds the clock advances in one behaviour
MaxTokens == 2                     \* successful responses kept in `minted`

\* dict.get(key, default) of the request's JSON object.
dict_get(data, key, default) == IF key \in DOMAIN data THEN data[key] ELSE default

\* Line 156: the f-string.
room_name_of(agent_id, ts) == S_test \o agent_id \o <<Hyphen>> \o str_int(ts)

\* The credential test with `and` for `or`.
credentials_missing_both(api_key, api_secret) == ~Truthy(api_key) /\ ~Truthy(api_secret)

\* Line 161: not api_key or not api_secret.
credentials_missing(api_key, api_secret) == ~Truthy(api_key) \/ ~Truthy(api_secret)

\* Lines 165-170.
VideoGrants(room_name) ==
    [room |-> room_name, room_join |-> TRUE, can_publish |-> TRUE,
     can_subscribe |-> TRUE]

\* Lines 172-177: the JWT, as the claims it carries and the secret that signs it.
AccessToken(api_key, api_secret, user_name, grant) ==
    [iss |-> api_key, sub |-> user_name, name |-> user_name, video |-> grant,
     signed_with |-> api_secret]

HTTPException(status_code, detail) ==
    [status |-> status_code, body |-> [detail |-> detail]]

\* Lines 149-189.  `body` is what request.json() yields; `signing` is whether
\* the LiveKit library's to_jwt() returns or raises.
generate_token_response(body, signing, env, clock) ==
    IF body.json # "object"
    THEN HTTPException(500, "request.json / data.get raised")    \* 150-151, 187-189
    ELSE LET data == body.data
             agent_id == dict_get(data, "agentId", S_default)
             user_name == dict_get(data, "userName",
                                   <<"T", "e", "s", "t", "e", "r", "-">> \o str_int(clock))
             room_name == room_name_of(agent_id, clock)
         IN  IF credentials_missing(env.api_key, env.api_secret)
             THEN HTTPException(500, "LiveKit credentials not configured")
             ELSE IF signing = "raise"
             THEN HTTPException(500, "to_jwt raised")               \* 177, 187-189
             ELSE [status |-> 200,
                   body |-> [token |-> AccessToken(env.api_key, env.api_secret,
                                                   user_name, VideoGrants(room_name)),
                             roomName |-> room_name,
                             livekitUrl |-> env.url,
                             agentId |-> agent_id]]

generate_token(body, signing) ==
    LET response == generate_token_response(body, signing, livekit_env, now) IN
    /\ Len(minted) < MaxTokens
    /\ last_op' = [op |-> "generate_token", request |-> body, signing |-> signing,
                   at |-> now, response |-> response]
    /\ minted' = IF response.status = 200 THEN Append(minted, response.body)
                 ELSE minted
    /\ UNCHANGED <<config_vars, now, livekit_env, job>>

\* A second passes.
Tick ==
    /\ now < ClockStart + MaxTicks
    /\ now' = now + 1
    /\ last_op' = [op |-> "tick"]
    /\ UNCHANGED <<config_vars, livekit_env, minted, job>>

\* The request bodies.
TokenAgentIds == {<<>>, <<"a">>, <<"a", "-", "1">>}

TokenRequests ==
    {[json |-> "invalid"], [json |-> "array"], [json |-> "object", data |-> <<>>]}
    \cup {[json |-> "object", data |-> [agentId |-> a]] : a \in TokenAgentIds}
    \cup {[json |-> "object", data |-> [agentId |-> a, userName |-> <<"u">>]] :
             a \in TokenAgentIds}

(***************************************************************************)
(* agent_worker.py: agent_entrypoint, lines 93-109                         *)
(***************************************************************************)
MaxTail == 3                       \* characters after the room name's prefix

\* json.loads of the room metadata: raises, or yields the parsed value.
json_loads(metadata) ==
    IF metadata.text = "invalid" THEN Raised("JSONDecodeError")
    ELSE Return([type |-> metadata.text, data |-> metadata.data])

\* Lines 94-100.
agent_id_from_metadata(metadata) ==
    IF metadata.text \in {"None", "empty"}                       \* line 95
    THEN S_default
    ELSE LET parsed == json_loads(metadata) IN
         IF parsed.kind = "raise" THEN S_default                 \* 99-100
         ELSE IF parsed.value.type # "object" THEN S_default     \* .get raises
         ELSE dict_get(parsed.value.data, "agent_id", S_default) \* line 98

\* Lines 103-107.
agent_id_from_room(agent_id, room_name) ==
    IF startswith(room_name, S_test)
    THEN LET parts == split(room_name, Hyphen) IN
         IF Len(parts) >= 2 THEN parts[2] ELSE agent_id
    ELSE agent_id

\* Lines 93-109: the identifier the worker fetches the configuration of.
extract_agent_id(metadata, room_name) ==
    agent_id_from_room(agent_id_from_metadata(metadata), room_name)

NoData == [k \in {} |-> <<>>]

Metadatas ==
    {[text |-> x, data |-> NoData] : x \in {"None", "empty", "invalid", "array", "object"}}
    \cup {[text |-> "object", data |-> [agent_id |-> <<"z">>]]}

RECURSIVE SeqsUpTo(_, _)
SeqsUpTo(S, n) ==
    IF n = 0 THEN {<<>>}
    ELSE LET shorter == SeqsUpTo(S, n - 1) IN
         shorter \cup {Append(q, c) : q \in shorter, c \in S}

RoomNames ==
    {prefix \o tail :
        prefix \in {<<>>, S_test, <<"t", "e", "s", "t">>, <<"r">>},
        tail \in SeqsUpTo({"a", Hyphen, "1"}, MaxTail)}

\* LiveKit dispatches a job for a room.
job_request(metadata, room_name) ==
    /\ job.pc = "idle"
    /\ job' = [pc |-> "started", metadata |-> metadata, room_name |-> room_name]
    /\ UNCHANGED <<config_vars, last_op, token_vars>>

\* The metadata of a room that was given none.
NoMetadata == [text |-> "None", data |-> NoData]

\* LiveKit dispatches a job for the room a token was minted for (main.py line
\* 156 names it; nothing sets its metadata).
room_job(i) ==
    /\ job.pc = "idle"
    /\ i \in 1..Len(minted)
    /\ job' = [pc |-> "started", metadata |-> NoMetadata,
               room_name |-> minted[i].roomName]
    /\ UNCHANGED <<config_vars, last_op, token_vars>>

agent_entrypoint ==
    /\ job.pc = "started"
    /\ job' = [pc |-> "configured", metadata |-> job.metadata,
               room_name |-> job.room_name,
               agent_id |-> extract_agent_id(job.metadata, job.room_name)]
    /\ UNCHANGED <<config_vars, last_op, token_vars>>

(***************************************************************************)
(* The state machines.                                                     *)
(***************************************************************************)
NoOp == [op |-> "none"]

\* ConfigManager.__init__ (lines 51-56); N8N_BASE_URL is set or not.
ConfigInit ==
    /\ n8n_base \in {"", "http://n8n:5678"}
    /\ _cache = EmptyDict
    /\ _default = _create_default
    /\ tasks = [t \in Tasks |-> Idle]
    /\ n8n_calls = [a \in AgentIds |-> 0]
    /\ stale_entries = {}
    /\ last_op = NoOp

\* The process environment (lines 158-159, 182): each LiveKit credential is
\* unset, empty or set.
TokenInit ==
    /\ now = ClockStart
    /\ livekit_env \in [api_key : {None, "", "APIkey"},
                        api_secret : {None, "", "secret"},
                        url : {"wss://livekit"}]
    /\ minted = <<>>

WorkerInit == job = [pc |-> "idle"]

\* One environment, for the specifications that do not read it.
EnvSet ==
    /\ now = ClockStart
    /\ livekit_env = [api_key |-> "APIkey", api_secret |-> "secret",
                      url |-> "wss://livekit"]
    /\ minted = <<>>

Init == ConfigInit /\ EnvSet /\ WorkerInit

TokenStart == ConfigInit /\ n8n_base = "" /\ TokenInit /\ WorkerInit

WorkerStart == Init /\ n8n_base = ""

\* The configuration resolver.
Next ==
    \/ \E t \in Tasks, arg \in AgentIds \cup {Omitted} : get_profile_enter(t, arg)
    \/ \E t \in Tasks, reply \in N8nReplies : get_profile_resume(t, reply)
    \/ \E agent_id \in AgentIds \cup {None} : invalidate_cache(agent_id)

Spec == Init /\ [][Next]_vars

\* Every awaited GET ends: the client is built with timeout=5.0 (line 105).
FairSpec ==
    Spec /\ \A t \in Tasks : WF_vars(\E reply \in N8nReplies : get_profile_resume(t, reply))

\* The token issuer.
TokenNext ==
    \/ \E body \in TokenRequests, signing \in {"return", "raise"} :
          generate_token(body, signing)
    \/ Tick

TokenSpec == TokenStart /\ [][TokenNext]_vars

\* The worker's job entrypoint.
WorkerNext ==
    \/ \E metadata \in Metadatas, room_name \in RoomNames :
          job_request(metadata, room_name)
    \/ agent_entrypoint

WorkerSpec == WorkerStart /\ [][WorkerNext]_vars

\* The token issuer and the worker that joins the rooms it names.
RoomNext ==
    \/ \E body \in TokenRequests, signing \in {"return", "raise"} :
          generate_token(body, signing)
    \/ Tick
    \/ \E i \in 1..MaxTokens : room_job(i)
    \/ agent_entrypoint

RoomSpec == WorkerStart /\ [][RoomNext]_vars

(***************************************************************************)
(* Properties.  A step of Spec is one operation, described by last_op'.    *)
(***************************************************************************)

\* The outcomes of the GET after which get_profile has no profile to build:
\* the call raised (network error, timeout), the status is not 200, or the
\* body is not a JSON object with fields of the annotated types.
FetchFailed(reply) ==
    \/ reply.kind = "raise"
    \/ reply.status # 200
    \/ reply.body.json # "object"
    \/ \E f \in DOMAIN reply.body.data \cap Fields :
          reply.body.data[f].t # FieldType[f]

IsProfile(v) == DOMAIN v = Fields

C2_FailureNeverCached ==
    [][ LET op == last_op' IN
        /\ (op.op = "resume" /\ FetchFailed(op.reply)) =>
              /\ op.ret = Return(_create_default)
              /\ _cache' = _cache
        /\ (op.op = "get_profile" /\ op.path = "nosource") =>
              /\ op.ret = Return(_create_default)
              /\ _cache' = _cache
        /\ (op.op = "get_profile" /\ op.agent_id \notin DOMAIN _cache
                /\ n8n_base # "") =>
              /\ op.path = "await"
              /\ n8n_calls'[op.agent_id] = n8n_calls[op.agent_id] + 1
      ]_vars

\* Reached: a second GET for "acme" has just ended in a 404, and "acme" is
\* still not cached.
C2_Witness ==
    /\ last_op.op = "resume"
    /\ last_op.agent_id = "acme"
    /\ last_op.reply.kind = "response"
    /\ last_op.reply.status = 404
    /\ n8n_calls["acme"] = 2
    /\ "acme" \notin DOMAIN _cache

\* C3: under every interleaving of get_profile and invalidate, whatever the
\* GET's outcome, every get_profile that returns hands its caller a profile and
\* never an exception, and every get_profile waiting for its GET returns.
C3_ResolveNeverFails ==
    /\ [](last_op.op \in {"get_profile", "resume"} /\ last_op.path # "await" =>
             /\ last_op.ret.kind = "return"
             /\ IsProfile(last_op.ret.value))
    /\ \A t \in Tasks : (tasks[t].pc = "awaiting") ~> (tasks[t].pc = "idle")

\* Reached: a GET has just raised and get_profile returned the default, while
\* the other task still waits for its GET.
C3_Witness ==
    /\ last_op.op = "resume"
    /\ last_op.reply.kind = "raise"
    /\ last_op.ret = Return(_create_default)
    /\ \E t \in Tasks : tasks[t].pc = "awaiting"

\* C4: with N8N configured, a get_profile(X) that directly follows
\* invalidate(X) is not answered from the cache and sends exactly one GET for
\* X: the call starts one GET, and the step that ends a GET sends none (no
\* retry) and ends the call.
C4_InvalidateThenOneCall ==
    [][ LET op == last_op' IN
        /\ (/\ last_op.op = "invalidate"
            /\ last_op.agent_id \in AgentIds
            /\ n8n_base # ""
            /\ op.op = "get_profile"
            /\ op.agent_id = last_op.agent_id) =>
              /\ op.path = "await"
              /\ n8n_calls' = [n8n_calls EXCEPT ![op.agent_id] = @ + 1]
              /\ \E t \in Tasks :
                    /\ tasks[t].pc = "idle"
                    /\ tasks'[t].pc = "awaiting"
                    /\ tasks'[t].request.params.agent_id = op.agent_id
        /\ (op.op = "resume") =>
              /\ n8n_calls' = n8n_calls
              /\ \E t \in Tasks : tasks[t].pc = "awaiting" /\ tasks'[t].pc = "idle"
      ]_vars

\* Reached: "acme" was fetched, then invalidated, and the get_profile("acme")
\* that followed has sent the second GET.
C4_Witness ==
    /\ last_op.op = "get_profile"
    /\ last_op.agent_id = "acme"
    /\ last_op.after = [op |-> "invalidate", agent_id |-> "acme"]
    /\ last_op.path = "await"
    /\ n8n_calls["acme"] = 2

\* C5: invalidate with an identifier removes that identifier's entry, if
\* any, and leaves every other entry as it was, for every string passed
\* (ConfigManager.invalidate or POST /api/invalidate-cache?agent_id=).
C5_InvalidateOneOnly ==
    [][ LET op == last_op' IN
        (op.op = "invalidate" /\ op.agent_id \in AgentIds) =>
            /\ DOMAIN _cache' = DOMAIN _cache \ {op.agent_id}
            /\ \A k \in DOMAIN _cache' : _cache'[k] = _cache[k]
            /\ op.http = [status |-> "invalidated", agent_id |-> op.agent_id]
      ]_vars

\* C6: invalidate() with no argument empties the cache; the built-in default
\* is the one made at construction in every state, and it is what get_profile
\* returns when the identifier is not cached and nothing can be fetched.
C6_ClearKeepsDefault ==
    /\ [](_default = _create_default)
    /\ [][ LET op == last_op' IN
           /\ (op.op = "invalidate" /\ op.agent_id = None) =>
                 /\ _cache' = EmptyDict
                 /\ _default' = _default
           /\ (op.op = "get_profile" /\ op.agent_id \notin DOMAIN _cache
                   /\ n8n_base = "") =>
                 op.ret = Return(_create_default)
           /\ (op.op = "resume" /\ FetchFailed(op.reply)) =>
                 op.ret = Return(_create_default)
         ]_vars

\* Reached: a full clear after a GET for "acme" was sent; the cache is empty and the
\* default is in place.
C6_Witness ==
    /\ last_op.op = "invalidate"
    /\ last_op.agent_id = None
    /\ _cache = EmptyDict
    /\ n8n_calls["acme"] >= 1
    /\ _default = _create_default

\* The precedence C7 states: the metadata's agent_id, else the room name's
\* second segment, else "default".
MetadataAgentId(metadata) ==
    IF metadata.text = "object" /\ "agent_id" \in DOMAIN metadata.data
    THEN <<metadata.data["agent_id"]>> ELSE <<>>

PrecedenceAgentId(metadata, room_name) ==
    IF MetadataAgentId(metadata) # <<>>
    THEN MetadataAgentId(metadata)[1]
    ELSE IF startswith(room_name, S_test) /\ Len(split(room_name, Hyphen)) >= 2
    THEN split(room_name, Hyphen)[2]
    ELSE S_default

\* C7: the identifier the worker extracts follows the precedence metadata >
\* room name > "default", for every metadata and room name.
C7_MetadataFirst ==
    job.pc = "configured" =>
        job.agent_id = PrecedenceAgentId(job.metadata, job.room_name)

\* The number a string of decimal digits denotes; -1 when it is not one.
DigitValue(c) ==
    IF \E d \in 1..10 : Digits[d] = c
    THEN (CHOOSE d \in 1..10 : Digits[d] = c) - 1 ELSE -1

RECURSIVE DecimalValue(_)
DecimalValue(q) ==
    IF q = <<>> \/ DigitValue(q[Len(q)]) < 0 THEN -1
    ELSE IF Len(q) = 1 THEN DigitValue(q[1])
    ELSE LET high == DecimalValue(SubSeq(q, 1, Len(q) - 1)) IN
         IF high < 0 THEN -1 ELSE 10 * high + DigitValue(q[Len(q)])

RequestedAgentId(request) ==
    IF "agentId" \in DOMAIN request.data THEN request.data["agentId"] ELSE S_default

\* C8: POST /api/token answers 200 or 500.  With the key or the secret absent
\* it answers 500 and no token; when request.json(), data.get or to_jwt
\* raises it answers 500; otherwise it answers 200 with a token whose grant
\* (join, publish, subscribe) is for exactly the roomName of the response,
\* that roomName is "test-" + agentId + "-" + the clock's seconds, and agentId
\* is the requested one, "default" when the request gives none.
C8_TokenOutcome ==
    last_op.op = "generate_token" =>
        LET r == last_op.response
            absent == livekit_env.api_key \in {None, ""}
                      \/ livekit_env.api_secret \in {None, ""}
            raised == last_op.request.json # "object" \/ last_op.signing = "raise"
        IN
        /\ r.status \in {200, 500}
        /\ absent => (r.status = 500 /\ "token" \notin DOMAIN r.body)
        /\ raised => (r.status = 500 /\ "token" \notin DOMAIN r.body)
        /\ (~absent /\ ~raised) =>
              LET b == r.body
                  a == RequestedAgentId(last_op.request)
                  n == Len(S_test) + Len(a)
              IN
              /\ r.status = 200
              /\ b.agentId = a
              /\ b.token.video.room = b.roomName
              /\ b.token.video.room_join
              /\ b.token.video.can_publish
              /\ b.token.video.can_subscribe
              /\ b.token.iss = livekit_env.api_key
              /\ b.token.signed_with = livekit_env.api_secret
              /\ Len(b.roomName) >= n + 2
              /\ SubSeq(b.roomName, 1, n + 1) = S_test \o a \o <<Hyphen>>
              /\ DecimalValue(SubSeq(b.roomName, n + 2, Len(b.roomName)))
                    = last_op.at

\* Reached: a token for agent "a-1" issued when the clock shows a two-digit
\* second, after an earlier one.
C8_Witness ==
    /\ last_op.op = "generate_token"
    /\ last_op.response.status = 200
    /\ last_op.response.body.agentId = <<"a", "-", "1">>
    /\ last_op.at = 10
    /\ Len(minted) = 2

\* C9: no two successful /api/token responses carry the same roomName.
C9_RoomNamesUnique ==
    \A i, j \in 1..Len(minted) :
        i # j => minted[i].roomName # minted[j].roomName

\* C10: get_profile("") and get_profile() use the key "default": the cache
\* never holds an entry under "", and no GET is sent with agent_id "".
C10_EmptyIsDefault ==
    /\ "" \notin DOMAIN _cache
    /\ n8n_calls[""] = 0
    /\ \A t \in Tasks :
          tasks[t].pc = "awaiting" => tasks[t].request.params.agent_id # ""

\* A 200 body that is a JSON object in which some AgentProfile field is
\* missing or is not of the annotated type.
IncompleteRecord(reply) ==
    /\ reply.kind = "response"
    /\ reply.status = 200
    /\ reply.body.json = "object"
    /\ \E f \in Fields :
          \/ f \notin DOMAIN reply.body.data
          \/ reply.body.data[f].t # FieldType[f]

\* C11: a 200 answer whose body lacks an AgentProfile field, or has one of
\* the wrong type, fails the whole fetch: get_profile returns the built-in
\* default and stores nothing in the cache.
C11_AllOrNothing ==
    [][ LET op == last_op' IN
        (op.op = "resume" /\ IncompleteRecord(op.reply)) =>
            /\ op.ret = Return(_create_default)
            /\ _cache' = _cache
      ]_vars

\* C12: every cache entry stored under key k holds a profile whose id is k.
C12_IdIsCacheKey ==
    \A k \in DOMAIN _cache : _cache[k].id = k

\* C13: an invalidation is not undone by a fetch in flight.  No cache entry
\* is one stored by a get_profile whose GET was sent before an invalidation
\* of its key, and no get_profile is answered from such an entry.
C13_InvalidationNotUndone ==
    /\ \A k \in DOMAIN _cache : k \notin stale_entries
    /\ (last_op.op = "get_profile" /\ last_op.path = "hit") =>
           last_op.agent_id \notin stale_entries

\* C14: get_profile only inserts: no step of it removes a cache entry or
\* replaces an entry's value with a different one, under any interleaving.
C14_InsertOnly ==
    [][ LET op == last_op' IN
        op.op \in {"get_profile", "resume"} =>
            \A k \in DOMAIN _cache :
                k \in DOMAIN _cache' /\ _cache'[k] = _cache[k]
      ]_vars

\* C15: with no room metadata, the identifier the worker extracts from a room
\* name minted by /api/token is the agentId of the response that minted it.
C15_RoomNameRoundTrip ==
    (job.pc = "configured" /\ job.metadata = NoMetadata) =>
        \A i \in 1..Len(minted) :
            minted[i].roomName = job.room_name =>
                job.agent_id = minted[i].agentId

====
